---- MODULE Spec2Model ----
(***************************************************************************)
(* Heating-oil gauge (src/main.py): two uasyncio tasks, update_display and *)
(* read_distance, sharing the module globals gallons / previous_gallons.   *)
(*                                                                         *)
(* Scheduling is cooperative: a task keeps the processor from one await to *)
(* the next.  `cur` names the task that holds the processor ("none" when   *)
(* every task is suspended at an await).  Each action is one statement (or *)
(* one straight-line group of statements) of a task; an action that ends   *)
(* in an await releases the processor.  Program counters are source line   *)
(* numbers of src/main.py.                                                 *)
(*                                                                         *)
(* Volumes are whole units of whatever the lookup table holds; the filter  *)
(* abs(diff) < previous_gallons / 20 is evaluated exactly (multiplied out  *)
(* by 20), so floating-point rounding of the division is not modelled.     *)
(***************************************************************************)
EXTENDS Integers, Sequences, FiniteSets, TLC

(* ------------------------------ constants ------------------------------ *)

\* MAX_INCHES = 44, in inches
MAX_INCHES == 44

\* SENSOR_OFFSET = 1.78, in hundredths of an inch
SENSOR_OFFSET_100 == 178

\* the retained / qos arguments of both publish calls
RETAIN == TRUE

QOS == 0

(* ------------------------------- bounds -------------------------------- *)

\* raw sensor distances (mm) the driver may return, in the order they are
\* added to the model as NumSamples grows
MmSamples == <<655, 680, 30, 756, 675, 1200, 629, 1162, 46>>

\* how many of MmSamples the driver may return
NumSamples == 5

MmInputs == { MmSamples[i] : i \in 1..NumSamples }

\* half-width of each neighbourhood of ConvUm
ConvSpan == 12

(* ------------------------------- state --------------------------------- *)

VARIABLES
    gallons,            \* global gallons
    previous_gallons,   \* global previous_gallons
    new_gallons,        \* local new_gallons of read_distance
    pcP,                \* position of read_distance
    pcD,                \* position of update_display
    pcH,                \* position of the conn_han task: "idle" until connect starts it
    cur,                \* task holding the processor: "none", "publish", "display", "hook"
    missing,            \* keys absent from the inches_to_gallons table
    reading,            \* outcome of the latest sensor.distance_mm() call
    rendered,           \* text last flushed to the display (<<>> before the first show)
    gallons_msg,        \* latest message delivered on GALLONS_TOPIC (NoMsg if none)
    status_count,       \* number of "Online" messages delivered on STATUS_TOPIC
    \* history variables (not program state)
    samples,            \* get_gallons() calls made in the current cycle
    rejected,           \* the first sample of the current cycle took the retry branch
    fault,              \* exception raised in the current cycle: "none", "sensor", "lookup", "publish"
    pubs,               \* volume publishes delivered in the current cycle
    start_gallons,      \* gallons when the current cycle began
    start_previous,     \* previous_gallons when the current cycle began
    last_current,       \* value written by the latest completed commit (0 before any)
    last_previous,      \* value gallons held immediately before the latest completed commit
    commits,            \* commits (line 99 executed) in the current cycle
    sleeps,             \* sleep(10) calls completed since the current cycle's first sample
    d_fault             \* the await that raised in update_display: "none", "connect", "online"

prog == <<gallons, previous_gallons, new_gallons, pcP, pcD, cur, missing, reading,
          rendered, gallons_msg, status_count>>

hist == <<samples, rejected, fault, pubs, start_gallons, start_previous,
          last_current, last_previous>>

hist2 == <<commits, sleeps, d_fault>>

vars == <<prog, hist, pcH, hist2>>

(* --------------------------- pure functions ---------------------------- *)

Abs(x) == IF x < 0 THEN -x ELSE x

Digits == <<"0", "1", "2", "3", "4", "5", "6", "7", "8", "9">>

RECURSIVE Str(_)
\* str() of a non-negative whole number: its decimal digits
Str(n) == IF n < 10 THEN <<Digits[n + 1]>>
          ELSE Str(n \div 10) \o <<Digits[(n % 10) + 1]>>

\* the table of the inches_to_gallons module, keyed by tenths of an inch
inches_to_gallons(t) == t \div 2

\* variant of InWindow: the bounds are exclusive
InWindow_strict(um) ==
    /\ SENSOR_OFFSET_100 * 254 < um
    /\ um < (MAX_INCHES * 100 + SENSOR_OFFSET_100) * 254

\* distance = distance_mm / 25.4 lies in [SENSOR_OFFSET, MAX_INCHES + SENSOR_OFFSET];
\* the reading um is in thousandths of a millimetre, i.e. distance * 25400
InWindow(um) ==
    /\ SENSOR_OFFSET_100 * 254 <= um
    /\ um <= (MAX_INCHES * 100 + SENSOR_OFFSET_100) * 254

\* round(MAX_INCHES - distance + SENSOR_OFFSET, 1) in tenths of an inch:
\* ((MAX_INCHES*100 + 178)*254 - um) / 2540 rounded to the nearest whole number.
\* A whole number of millimetres never falls half-way between two tenths; for
\* the other readings a tie is rounded up here, while round() on the inexact
\* float may go either way.
inches_of_oil(um) ==
    ((MAX_INCHES * 100 + SENSOR_OFFSET_100) * 254 - um + 1270) \div 2540

\* get_gallons(): the exception raised ("none" if it returns) and the value returned
get_gallons(r, miss) ==
    IF ~r.ok THEN [exc |-> "sensor", val |-> 0]
    ELSE IF InWindow(r.um)
         THEN IF inches_of_oil(r.um) \in miss
              THEN [exc |-> "lookup", val |-> 0]
              ELSE [exc |-> "none", val |-> inches_to_gallons(inches_of_oil(r.um))]
         ELSE [exc |-> "none", val |-> 0]

\* variant of is_reading_reasonable: a deviation of exactly 5% passes
is_reading_reasonable_le(new_reading, prev) ==
    20 * Abs(new_reading - prev) <= prev

\* is_reading_reasonable(new_reading), against the global previous_gallons
is_reading_reasonable(new_reading, prev) ==
    20 * Abs(new_reading - prev) < prev

(* ------------------------------- inputs -------------------------------- *)

\* what sensor.distance_mm() can do: raise, or return a distance (here a whole
\* number of millimetres, recorded in thousandths of a millimetre)
Readings == {[ok |-> FALSE, um |-> 0]} \cup { [ok |-> TRUE, um |-> 1000 * m] : m \in MmInputs }

\* readings for the conversion alone, in thousandths of a millimetre: around
\* both ends of the window (1.78 in = 45212, 45.78 in = 1162812), around the
\* half-way point between 20.0 and 20.1 inches of oil, and the key the
\* incomplete table lacks
ConvUm ==
    { SENSOR_OFFSET_100 * 254 + k : k \in -ConvSpan..ConvSpan }
    \cup { (MAX_INCHES * 100 + SENSOR_OFFSET_100) * 254 + k : k \in -ConvSpan..ConvSpan }
    \cup { 653542 + 635 * k : k \in -ConvSpan..ConvSpan }
    \cup { 756412 }

ConvReadings == {[ok |-> FALSE, um |-> 0]} \cup { [ok |-> TRUE, um |-> u] : u \in ConvUm }

\* the table is either complete or lacks the entry for 16.0 inches
MissingChoices == { {}, {160} }

\* nothing has been published on a topic yet
NoMsg == [payload |-> <<>>, retain |-> FALSE, qos |-> 0]

\* config['connect_coro'] = conn_han (line 108): once connect() has
\* established the connection the client starts the registered coroutine as a
\* task of its own
connect_coro(connected) == IF connected THEN "L51" ELSE "idle"

\* a task can take a step if it holds the processor or nobody does
Runnable(t) == cur \in {"none", t}

(* -------------------------------- Init --------------------------------- *)

Init ==
    /\ gallons = 0
    /\ previous_gallons = 0
    /\ new_gallons = 0
    /\ pcP = "L93"
    /\ pcD = "L59"
    /\ cur = "none"
    /\ missing \in MissingChoices
    /\ reading = [ok |-> TRUE, um |-> 0]
    /\ rendered = <<>>
    /\ gallons_msg = NoMsg
    /\ status_count = 0
    /\ samples = 0
    /\ rejected = FALSE
    /\ fault = "none"
    /\ pubs = 0
    /\ start_gallons = 0
    /\ start_previous = 0
    /\ last_current = 0
    /\ last_previous = 0
    /\ pcH = "idle"
    /\ commits = 0
    /\ sleeps = 0
    /\ d_fault = "none"

(* ---------------------------- read_distance ---------------------------- *)

\* line 93: new_gallons = get_gallons(), first sample of a cycle, with the
\* sensor returning one of the readings R
Sample1(R) ==
    /\ pcP = "L93" /\ Runnable("publish")
    /\ \E r \in R :
         LET out == get_gallons(r, missing) IN
         /\ reading' = r
         /\ fault' = out.exc
         /\ IF out.exc = "none"
            THEN new_gallons' = out.val /\ pcP' = "L94"
            ELSE new_gallons' = new_gallons /\ pcP' = "L103"
    /\ cur' = "publish"
    /\ samples' = 1
    /\ rejected' = FALSE
    /\ pubs' = 0
    /\ start_gallons' = gallons
    /\ start_previous' = previous_gallons
    /\ UNCHANGED <<gallons, previous_gallons, pcD, missing, rendered, gallons_msg,
                   status_count, last_current, last_previous>>
    /\ commits' = 0
    /\ sleeps' = 0
    /\ UNCHANGED <<pcH, d_fault>>

P_Sample1 == Sample1(Readings)

\* line 94 (and the print of line 95): the filter decides between retry and commit
P_Filter ==
    /\ pcP = "L94" /\ Runnable("publish")
    /\ IF new_gallons = 0 \/ ~is_reading_reasonable(new_gallons, previous_gallons)
       THEN pcP' = "L96" /\ rejected' = TRUE
       ELSE pcP' = "L98" /\ rejected' = FALSE
    /\ cur' = "publish"
    /\ UNCHANGED <<gallons, previous_gallons, new_gallons, pcD, missing, reading,
                   rendered, gallons_msg, status_count, samples, fault, pubs,
                   start_gallons, start_previous, last_current, last_previous>>
    /\ UNCHANGED <<pcH, commits, sleeps, d_fault>>

\* line 96: await asyncio.sleep(2)
P_RetrySleep ==
    /\ pcP = "L96" /\ Runnable("publish")
    /\ pcP' = "L97"
    /\ cur' = "none"
    /\ UNCHANGED <<gallons, previous_gallons, new_gallons, pcD, missing, reading,
                   rendered, gallons_msg, status_count, hist>>
    /\ UNCHANGED <<pcH, commits, sleeps, d_fault>>

\* variant of P_Sample2: the retry sample goes through the filter again
P_Sample2_refilter ==
    /\ pcP = "L97" /\ Runnable("publish")
    /\ \E r \in Readings :
         LET out == get_gallons(r, missing) IN
         /\ reading' = r
         /\ fault' = out.exc
         /\ IF out.exc = "none"
            THEN new_gallons' = out.val /\ pcP' = "L94"
            ELSE new_gallons' = new_gallons /\ pcP' = "L103"
    /\ cur' = "publish"
    /\ samples' = samples + 1
    /\ UNCHANGED <<gallons, previous_gallons, pcD, missing, rendered, gallons_msg,
                   status_count, rejected, pubs, start_gallons, start_previous,
                   last_current, last_previous>>
    /\ UNCHANGED <<pcH, commits, sleeps, d_fault>>

\* variant of P_Sample2: a retry sample of 0 is dropped instead of committed
P_Sample2_dropzero ==
    /\ pcP = "L97" /\ Runnable("publish")
    /\ \E r \in Readings :
         LET out == get_gallons(r, missing) IN
         /\ reading' = r
         /\ fault' = out.exc
         /\ IF out.exc = "none"
            THEN new_gallons' = out.val /\ pcP' = (IF out.val = 0 THEN "L101" ELSE "L98")
            ELSE new_gallons' = new_gallons /\ pcP' = "L103"
    /\ cur' = "publish"
    /\ samples' = samples + 1
    /\ UNCHANGED <<gallons, previous_gallons, pcD, missing, rendered, gallons_msg,
                   status_count, rejected, pubs, start_gallons, start_previous,
                   last_current, last_previous>>
    /\ UNCHANGED <<pcH, commits, sleeps, d_fault>>

\* variant of P_Sample2: a driver failure is swallowed and read as 0
P_Sample2_zero ==
    /\ pcP = "L97" /\ Runnable("publish")
    /\ \E r \in Readings :
         LET out == get_gallons(r, missing) IN
         /\ reading' = r
         /\ fault' = out.exc
         /\ IF out.exc = "lookup"
            THEN new_gallons' = new_gallons /\ pcP' = "L103"
            ELSE new_gallons' = out.val /\ pcP' = "L98"
    /\ cur' = "publish"
    /\ samples' = samples + 1
    /\ UNCHANGED <<gallons, previous_gallons, pcD, missing, rendered, gallons_msg,
                   status_count, rejected, pubs, start_gallons, start_previous,
                   last_current, last_previous>>
    /\ UNCHANGED <<pcH, commits, sleeps, d_fault>>

\* line 97: new_gallons = get_gallons(), the retry sample
P_Sample2 ==
    /\ pcP = "L97" /\ Runnable("publish")
    /\ \E r \in Readings :
         LET out == get_gallons(r, missing) IN
         /\ reading' = r
         /\ fault' = out.exc
         /\ IF out.exc = "none"
            THEN new_gallons' = out.val /\ pcP' = "L98"
            ELSE new_gallons' = new_gallons /\ pcP' = "L103"
    /\ cur' = "publish"
    /\ samples' = samples + 1
    /\ UNCHANGED <<gallons, previous_gallons, pcD, missing, rendered, gallons_msg,
                   status_count, rejected, pubs, start_gallons, start_previous,
                   last_current, last_previous>>
    /\ UNCHANGED <<pcH, commits, sleeps, d_fault>>

\* variant of P_Commit1: the wrong variable is saved
P_Commit1_wrongvar ==
    /\ pcP = "L98" /\ Runnable("publish")
    /\ previous_gallons' = new_gallons
    /\ pcP' = "L99"
    /\ cur' = "publish"
    /\ UNCHANGED <<gallons, new_gallons, pcD, missing, reading, rendered,
                   gallons_msg, status_count, hist>>
    /\ UNCHANGED <<pcH, commits, sleeps, d_fault>>

\* variant of P_Commit1: an await sits between the two assignments
P_Commit1_yield ==
    /\ pcP = "L98" /\ Runnable("publish")
    /\ previous_gallons' = gallons
    /\ pcP' = "L99"
    /\ cur' = "none"
    /\ UNCHANGED <<gallons, new_gallons, pcD, missing, reading, rendered,
                   gallons_msg, status_count, hist>>
    /\ UNCHANGED <<pcH, commits, sleeps, d_fault>>

\* line 98: previous_gallons = gallons
P_Commit1 ==
    /\ pcP = "L98" /\ Runnable("publish")
    /\ previous_gallons' = gallons
    /\ pcP' = "L99"
    /\ cur' = "publish"
    /\ UNCHANGED <<gallons, new_gallons, pcD, missing, reading, rendered,
                   gallons_msg, status_count, hist>>
    /\ UNCHANGED <<pcH, commits, sleeps, d_fault>>

\* line 99: gallons = new_gallons
P_Commit2 ==
    /\ pcP = "L99" /\ Runnable("publish")
    /\ gallons' = new_gallons
    /\ pcP' = "L100"
    /\ cur' = "publish"
    /\ last_current' = new_gallons
    /\ last_previous' = gallons
    /\ UNCHANGED <<previous_gallons, new_gallons, pcD, missing, reading, rendered,
                   gallons_msg, status_count, samples, rejected, fault, pubs,
                   start_gallons, start_previous>>
    /\ commits' = commits + 1
    /\ UNCHANGED <<pcH, sleeps, d_fault>>

\* variant of P_Publish: the payload is the value before the commit
P_Publish_stale ==
    /\ pcP = "L100" /\ Runnable("publish")
    /\ \E ok \in BOOLEAN :
         IF ok
         THEN /\ gallons_msg' = [payload |-> Str(previous_gallons), retain |-> RETAIN, qos |-> QOS]
              /\ pubs' = pubs + 1
              /\ fault' = fault
              /\ pcP' = "L101"
         ELSE /\ gallons_msg' = gallons_msg
              /\ pubs' = pubs
              /\ fault' = "publish"
              /\ pcP' = "L103"
    /\ cur' = "none"
    /\ UNCHANGED <<gallons, previous_gallons, new_gallons, pcD, missing, reading,
                   rendered, status_count, samples, rejected, start_gallons,
                   start_previous, last_current, last_previous>>
    /\ UNCHANGED <<pcH, commits, sleeps, d_fault>>

\* line 100: await client.publish(GALLONS_TOPIC, str(gallons), retain=True, qos=0);
\* the payload is built before the task suspends; the call returns or raises
P_Publish ==
    /\ pcP = "L100" /\ Runnable("publish")
    /\ \E ok \in BOOLEAN :
         IF ok
         THEN /\ gallons_msg' = [payload |-> Str(gallons), retain |-> RETAIN, qos |-> QOS]
              /\ pubs' = pubs + 1
              /\ fault' = fault
              /\ pcP' = "L101"
         ELSE /\ gallons_msg' = gallons_msg
              /\ pubs' = pubs
              /\ fault' = "publish"
              /\ pcP' = "L103"
    /\ cur' = "none"
    /\ UNCHANGED <<gallons, previous_gallons, new_gallons, pcD, missing, reading,
                   rendered, status_count, samples, rejected, start_gallons,
                   start_previous, last_current, last_previous>>
    /\ UNCHANGED <<pcH, commits, sleeps, d_fault>>

\* line 101: await asyncio.sleep(10) on the success path
P_Sleep ==
    /\ pcP = "L101" /\ Runnable("publish")
    /\ pcP' = "L105"
    /\ cur' = "none"
    /\ UNCHANGED <<gallons, previous_gallons, new_gallons, pcD, missing, reading,
                   rendered, gallons_msg, status_count, hist>>
    /\ sleeps' = sleeps + 1
    /\ UNCHANGED <<pcH, commits, d_fault>>

\* variant of P_Except: the exception is logged and raised again
P_Except_reraise ==
    /\ pcP = "L103" /\ Runnable("publish")
    /\ pcP' = "ended"
    /\ cur' = "none"
    /\ UNCHANGED <<gallons, previous_gallons, new_gallons, pcD, missing, reading,
                   rendered, gallons_msg, status_count, hist>>
    /\ UNCHANGED <<pcH, commits, sleeps, d_fault>>

\* variant of P_Except: the handler undoes the commit
P_Except_rollback ==
    /\ pcP = "L103" /\ Runnable("publish")
    /\ pcP' = "L105"
    /\ cur' = "publish"
    /\ gallons' = start_gallons
    /\ previous_gallons' = start_previous
    /\ UNCHANGED <<new_gallons, pcD, missing, reading,
                   rendered, gallons_msg, status_count, hist>>
    /\ UNCHANGED <<pcH, commits, sleeps, d_fault>>

\* lines 102-103: except Exception as e: print(...)
P_Except ==
    /\ pcP = "L103" /\ Runnable("publish")
    /\ pcP' = "L105"
    /\ cur' = "publish"
    /\ UNCHANGED <<gallons, previous_gallons, new_gallons, pcD, missing, reading,
                   rendered, gallons_msg, status_count, hist>>
    /\ UNCHANGED <<pcH, commits, sleeps, d_fault>>

\* variant of P_Finally: the cleanup step does not sleep
P_Finally_nosleep ==
    /\ pcP = "L105" /\ Runnable("publish")
    /\ pcP' = "L93"
    /\ cur' = "none"
    /\ UNCHANGED <<gallons, previous_gallons, new_gallons, pcD, missing, reading,
                   rendered, gallons_msg, status_count, hist>>
    /\ UNCHANGED <<pcH, commits, sleeps, d_fault>>

\* lines 104-105: finally: await asyncio.sleep(10), then back to the top of the loop
P_Finally ==
    /\ pcP = "L105" /\ Runnable("publish")
    /\ pcP' = "L93"
    /\ cur' = "none"
    /\ UNCHANGED <<gallons, previous_gallons, new_gallons, pcD, missing, reading,
                   rendered, gallons_msg, status_count, hist>>
    /\ sleeps' = sleeps + 1
    /\ UNCHANGED <<pcH, commits, d_fault>>

read_distance ==
    \/ P_Sample1 \/ P_Filter \/ P_RetrySleep \/ P_Sample2 \/ P_Commit1
    \/ P_Commit2 \/ P_Publish \/ P_Sleep \/ P_Except \/ P_Finally

(* --------------------------- update_display ---------------------------- *)

\* line 59: await client.connect(); an exception ends the task
D_Connect ==
    /\ pcD = "L59" /\ Runnable("display")
    /\ \E ok \in BOOLEAN :
         /\ pcD' = IF ok THEN "L60" ELSE "ended"
         /\ pcH' = connect_coro(ok)
         /\ d_fault' = IF ok THEN d_fault ELSE "connect"
    /\ cur' = "none"
    /\ UNCHANGED <<gallons, previous_gallons, new_gallons, pcP, missing, reading,
                   rendered, gallons_msg, status_count, hist>>
    /\ UNCHANGED <<commits, sleeps>>

\* line 60: await asyncio.sleep(2)
D_BrokerSleep ==
    /\ pcD = "L60" /\ Runnable("display")
    /\ pcD' = "L61"
    /\ cur' = "none"
    /\ UNCHANGED <<gallons, previous_gallons, new_gallons, pcP, missing, reading,
                   rendered, gallons_msg, status_count, hist>>
    /\ UNCHANGED <<pcH, commits, sleeps, d_fault>>

\* variant of D_Online: a failed announce is swallowed and the loop starts
D_Online_contained ==
    /\ pcD = "L61" /\ Runnable("display")
    /\ \E ok \in BOOLEAN :
         IF ok
         THEN status_count' = status_count + 1 /\ pcD' = "L64" /\ d_fault' = d_fault
         ELSE status_count' = status_count /\ pcD' = "L64" /\ d_fault' = "online"
    /\ cur' = "none"
    /\ UNCHANGED <<gallons, previous_gallons, new_gallons, pcP, missing, reading,
                   rendered, gallons_msg, hist>>
    /\ UNCHANGED <<pcH, commits, sleeps>>

\* lines 61-62 (online, lines 54-55): await client.publish(STATUS_TOPIC, 'Online', ...)
D_Online ==
    /\ pcD = "L61" /\ Runnable("display")
    /\ \E ok \in BOOLEAN :
         IF ok
         THEN status_count' = status_count + 1 /\ pcD' = "L64" /\ d_fault' = d_fault
         ELSE status_count' = status_count /\ pcD' = "ended" /\ d_fault' = "online"
    /\ cur' = "none"
    /\ UNCHANGED <<gallons, previous_gallons, new_gallons, pcP, missing, reading,
                   rendered, gallons_msg, hist>>
    /\ UNCHANGED <<pcH, commits, sleeps>>

\* lines 64-68: clear, printstring(str(gallons)), show
D_Render ==
    /\ pcD = "L64" /\ Runnable("display")
    /\ rendered' = Str(gallons)
    /\ pcD' = "L69"
    /\ cur' = "display"
    /\ UNCHANGED <<gallons, previous_gallons, new_gallons, pcP, missing, reading,
                   gallons_msg, status_count, hist>>
    /\ UNCHANGED <<pcH, commits, sleeps, d_fault>>

\* variant of D_Sleep: the display waits for the volume publish of the cycle
D_Sleep_waits ==
    /\ pcD = "L69" /\ Runnable("display")
    /\ pubs = 1
    /\ pcD' = "L64"
    /\ cur' = "none"
    /\ UNCHANGED <<gallons, previous_gallons, new_gallons, pcP, missing, reading,
                   rendered, gallons_msg, status_count, hist>>
    /\ UNCHANGED <<pcH, commits, sleeps, d_fault>>

\* line 69: await asyncio.sleep(1), then back to line 64
D_Sleep ==
    /\ pcD = "L69" /\ Runnable("display")
    /\ pcD' = "L64"
    /\ cur' = "none"
    /\ UNCHANGED <<gallons, previous_gallons, new_gallons, pcP, missing, reading,
                   rendered, gallons_msg, status_count, hist>>
    /\ UNCHANGED <<pcH, commits, sleeps, d_fault>>

update_display ==
    \/ D_Connect \/ D_BrokerSleep \/ D_Online \/ D_Render \/ D_Sleep

(* ------------------------------ conn_han ------------------------------- *)

\* lines 50-55: conn_han awaits online(), which publishes 'Online' on
\* STATUS_TOPIC; the call returns or raises, and either way the task is over
H_Online ==
    /\ pcH = "L51" /\ Runnable("hook")
    /\ \E ok \in BOOLEAN :
         status_count' = IF ok THEN status_count + 1 ELSE status_count
    /\ pcH' = "done"
    /\ cur' = "none"
    /\ UNCHANGED <<gallons, previous_gallons, new_gallons, pcP, pcD, missing, reading,
                   rendered, gallons_msg, hist>>
    /\ UNCHANGED <<commits, sleeps, d_fault>>

conn_han == H_Online

(* ---------------------------- specification ---------------------------- *)

\* get_gallons() called once on each of the conversion readings
G_Call == Sample1(ConvReadings)

Next == read_distance \/ update_display \/ conn_han

Spec == Init /\ [][Next]_vars

\* the uasyncio run queue is first-in first-out: a task that is ready again
\* and again is run, and a pending await (sleep, publish, connect) completes
FairSpec == Spec /\ SF_vars(read_distance) /\ SF_vars(update_display) /\ SF_vars(conn_han)

\* only update_display is scheduled fairly; read_distance runs on to its next
\* await once it holds the processor, but an await of read_distance or of
\* conn_han (a sleep, a publish) may take forever
DisplayFairSpec ==
    Spec /\ SF_vars(update_display) /\ WF_vars(cur = "publish" /\ read_distance)

\* the conversion on its own
ConvSpec == Init /\ [][G_Call]_vars

TypeOK ==
    /\ gallons \in Nat /\ previous_gallons \in Nat /\ new_gallons \in Nat
    /\ pcP \in {"L93", "L94", "L96", "L97", "L98", "L99", "L100", "L101", "L103", "L105"}
    /\ pcD \in {"L59", "L60", "L61", "L64", "L69", "ended"}
    /\ cur \in {"none", "publish", "display", "hook"}
    /\ pcH \in {"idle", "L51", "done"}
    /\ commits \in 0..1
    /\ sleeps \in 0..2
    /\ d_fault \in {"none", "connect", "online"}
    /\ samples \in 0..2
    /\ fault \in {"none", "sensor", "lookup", "publish"}

(* ------------------------------ properties ----------------------------- *)

\* a display render step (lines 64-68)
RenderStep == pcD = "L64" /\ pcD' = "L69"

\* C1: outside the two-line commit itself, previous_gallons is the value that
\* gallons held immediately before the latest commit (0 before and after the
\* first commit), whatever cycles (accepted, retried, failed) came before.
C1_PreviousIsPriorCurrent ==
    pcP # "L99" => previous_gallons = last_previous

C1_Witness ==
    /\ pcP = "L100"
    /\ last_previous # 0
    /\ previous_gallons # gallons

\* C2: the display task can never run between lines 98 and 99: whenever the
\* processor is not held by read_distance the pair (gallons, previous_gallons)
\* is the pair left by the latest completed commit, and every render shows
\* the value written by that commit (0 before any commit).
C2_NoHalfCommitVisible ==
    /\ [](pcP = "L99" => cur = "publish")
    /\ [](cur # "publish" =>
            gallons = last_current /\ previous_gallons = last_previous)
    /\ [][RenderStep => rendered' = Str(last_current)]_vars

C2_Witness ==
    /\ pcD = "L69" /\ cur = "display"
    /\ pcP = "L97"
    /\ last_current # 0
    /\ last_previous # last_current
    /\ rendered = Str(last_current)

\* C3: a cycle samples the sensor at most twice; the second sample is taken
\* exactly when the first one took the retry branch, it is reached only
\* through the sleep of line 96, and no third sample follows.
C3_AtMostOneRetry ==
    /\ [](samples <= 2)
    /\ [](samples = 2 => rejected)
    /\ [](pcP \in {"L98", "L99", "L100", "L101"} /\ rejected => samples = 2)
    /\ [](pcP = "L97" => rejected /\ samples = 1)
    /\ [][pcP' = "L97" /\ pcP # "L97" => pcP = "L96" /\ cur' = "none"]_vars
    /\ [][samples' = 2 /\ samples # 2 => pcP = "L97"]_vars

C3_Witness ==
    /\ samples = 2
    /\ rejected
    /\ pcP = "L100"

\* C4: when the retry sample returns a value, control goes straight to the
\* commit; the value committed and the payload published are that value,
\* whatever it is (0 included).
C4_RetryCommittedUnfiltered ==
    /\ [][pcP = "L97" /\ pcP' # "L97" /\ fault' = "none" =>
            pcP' = "L98" /\ new_gallons' = get_gallons(reading', missing).val]_vars
    /\ [](pcP \in {"L100", "L101"} /\ samples = 2 =>
            gallons = get_gallons(reading, missing).val)
    /\ [](pcP = "L101" /\ samples = 2 =>
            gallons_msg.payload = Str(get_gallons(reading, missing).val))

C4_Witness ==
    /\ pcP = "L101"
    /\ samples = 2
    /\ gallons = 0
    /\ previous_gallons # 0
    /\ gallons_msg.payload = <<"0">>

\* C5: with previous_gallons > 0 the first sample goes to the commit without
\* retry exactly when it is non-zero and |new - previous| < 5% of previous
\* (strictly); a first sample of 0 never goes to the commit without retry.
C5_FilterCriterion ==
    /\ (pcP = "L98" /\ samples = 1) => new_gallons # 0
    /\ previous_gallons > 0 =>
         /\ (pcP = "L98" /\ samples = 1) =>
                100 * Abs(new_gallons - previous_gallons) < 5 * previous_gallons
         /\ pcP = "L96" =>
                \/ new_gallons = 0
                \/ 100 * Abs(new_gallons - previous_gallons) >= 5 * previous_gallons

C5_Witness ==
    /\ pcP = "L96"
    /\ previous_gallons > 0
    /\ new_gallons # 0
    /\ 100 * Abs(new_gallons - previous_gallons) = 5 * previous_gallons

\* C6: with previous_gallons = 0, a non-zero first sample does not take the
\* retry branch.
C6_StartupAccepts ==
    pcP = "L96" => ~(previous_gallons = 0 /\ new_gallons # 0)

\* C7: the first sample is accepted or rejected by comparing it with gallons,
\* the most recently committed value.
C7_FilterAgainstCurrent ==
    /\ (pcP = "L98" /\ samples = 1) =>
          new_gallons # 0 /\ 20 * Abs(new_gallons - gallons) < gallons
    /\ pcP = "L96" =>
          new_gallons = 0 \/ ~(20 * Abs(new_gallons - gallons) < gallons)

\* C8: read_distance never ends, and under fair scheduling a first sample is
\* taken again and again, whatever failures occur.
C8_CyclesForever ==
    /\ [](pcP \in {"L93", "L94", "L96", "L97", "L98", "L99", "L100", "L101", "L103", "L105"})
    /\ []<><<P_Sample1>>_vars

C8_Witness ==
    /\ pcP = "L93"
    /\ fault # "none"

\* C9: in a cycle where the sensor driver raised, nothing is committed and
\* nothing is published, and a render shows the last committed value.
C9_SensorFailureCommitsNothing ==
    /\ [](fault = "sensor" =>
            /\ gallons = start_gallons
            /\ previous_gallons = start_previous
            /\ pubs = 0)
    /\ [][fault = "sensor" /\ RenderStep => rendered' = Str(start_gallons)]_vars

C9_Witness ==
    /\ fault = "sensor"
    /\ samples = 2
    /\ pcP = "L93"
    /\ gallons # 0
    /\ pcD = "L69" /\ cur = "display"
    /\ rendered = Str(gallons)

\* C10: in a cycle where the volume publish raised, the commit of that cycle
\* stays (no roll-back), a render shows the newly committed value, and the
\* loop reaches the top of the next cycle.
C10_PublishFailureKeepsCommit ==
    /\ [](fault = "publish" =>
            /\ gallons = new_gallons
            /\ previous_gallons = start_gallons
            /\ pubs = 0)
    /\ [][fault = "publish" /\ RenderStep => rendered' = Str(new_gallons)]_vars
    /\ (fault = "publish" /\ pcP = "L103") ~> (pcP = "L93")

C10_Witness ==
    /\ fault = "publish"
    /\ pcP = "L93"
    /\ gallons # start_gallons
    /\ gallons_msg.payload # Str(gallons)
    /\ rendered = Str(gallons)

\* C11: a missing lookup-table entry is fatal: read_distance does not log it
\* and arrive at the top of the next cycle.
C11_LookupFaultFatal ==
    ~(fault = "lookup" /\ pcP = "L93")

\* C12: a cycle delivers at most one volume message; a cycle that ends without
\* an exception delivers exactly one; a delivered message follows the commit of
\* the same cycle and carries str() of the committed value, retained, qos 0;
\* a cycle without a commit delivers none.
C12_OnePublishPerCycle ==
    /\ [](pubs <= 1)
    /\ [](pubs = 1 =>
            /\ commits = 1
            /\ gallons_msg = [payload |-> Str(last_current), retain |-> TRUE, qos |-> 0])
    /\ [](commits = 0 => pubs = 0)
    /\ [](pcP = "L93" /\ samples > 0 /\ fault = "none" => pubs = 1)
    /\ [][pubs' # pubs /\ pubs' > 0 => pcP = "L100" /\ commits = 1]_vars

C12_Witness ==
    /\ pcP = "L93"
    /\ fault = "none"
    /\ pubs = 1
    /\ gallons # 0
    /\ gallons # previous_gallons

\* C13: at most one 'Online' message is delivered for the connection made at
\* startup, counting update_display's own announce and the connect hook.
C13_OnlineOnce ==
    status_count <= 1

\* C14: once update_display is in its render loop it stays there and renders
\* again and again, even if read_distance and conn_han never come back from
\* an await.
C14_DisplayRendersForever ==
    /\ [][(pcD \in {"L64", "L69"}) => (pcD' \in {"L64", "L69"})]_vars
    /\ (pcD = "L64") ~> (pcD = "L69")
    /\ (pcD = "L69") ~> (pcD = "L64")

C14_Witness ==
    /\ pcD = "L69" /\ cur = "display"
    /\ pcP = "L103" /\ fault = "publish"
    /\ rendered = Str(gallons)

\* C15: for a reading r (in 1/25400 inch) with 1.78 in <= r <= 45.78 in, both
\* ends included, get_gallons returns the table entry of 45.78 in - r rounded
\* to the nearest tenth of an inch (KeyError if the table lacks it); for any
\* other reading it returns 0 and does not raise.
C15_Conversion ==
    (samples = 1 /\ reading.ok) =>
        IF 178 * 254 <= reading.um /\ reading.um <= 4578 * 254
        THEN \E t \in 0..440 :
               /\ 2 * Abs(2540 * t - (4578 * 254 - reading.um)) <= 2540
               /\ \/ t \notin missing /\ fault = "none" /\ pcP = "L94"
                     /\ new_gallons = inches_to_gallons(t)
                  \/ t \in missing /\ fault = "lookup" /\ pcP = "L103"
        ELSE fault = "none" /\ pcP = "L94" /\ new_gallons = 0

C15_Witness ==
    /\ samples = 1
    /\ reading = [ok |-> TRUE, um |-> 178 * 254]
    /\ pcP = "L94"
    /\ new_gallons = inches_to_gallons(440)

\* C16: previous_gallons changes only in the step of line 98 and gallons only
\* in the step of line 99; no other step of read_distance, update_display or
\* conn_han changes either.
C16_SingleWriter ==
    [][/\ (previous_gallons' # previous_gallons) => (pcP = "L98" /\ pcP' = "L99")
       /\ (gallons' # gallons) => (pcP = "L99" /\ pcP' = "L100")]_vars

C16_Witness ==
    /\ gallons # 0
    /\ previous_gallons # 0
    /\ gallons # previous_gallons
    /\ pcH = "done"
    /\ status_count = 2
    /\ rendered = Str(gallons)
    /\ fault = "publish"
    /\ pcP = "L93"

\* C17 (as stated): every cycle, whatever its outcome, is followed by two
\* sleep(10) calls before the next first sample.
C17_TwoSleepsAlways ==
    (pcP = "L93" /\ samples > 0) => sleeps = 2

\* C17 (amended): a cycle that ends without an exception is followed by two
\* sleep(10) calls (line 101, then line 105); a cycle that raised (sensor,
\* lookup or publish failure) is followed by the sleep of line 105 only.
C17_SleepsByOutcome ==
    /\ [](pcP = "L93" /\ samples > 0 =>
            sleeps = IF fault = "none" THEN 2 ELSE 1)
    /\ [][sleeps' # sleeps /\ sleeps' = 2 => pcP = "L105" /\ fault = "none"]_vars
    /\ [][sleeps' # sleeps /\ sleeps' = 1 =>
            \/ pcP = "L101" /\ fault = "none"
            \/ pcP = "L105" /\ fault # "none"]_vars

C17_Witness ==
    /\ pcP = "L93"
    /\ fault = "sensor"
    /\ sleeps = 1

\* C18: nothing is rendered before connect and the 'Online' publish of
\* update_display have both returned; if either raises, update_display is over
\* for good and never renders, while read_distance goes on cycling.
C18_DisplayNotContained ==
    /\ [](pcD \in {"L59", "L60", "L61"} => rendered = <<>>)
    /\ [](d_fault # "none" => pcD = "ended" /\ rendered = <<>>)
    /\ [][(pcD = "ended") => (pcD' = "ended" /\ rendered' = rendered)]_vars
    /\ []<>(pcD = "ended" => pcP = "L93")
    /\ []<>(pcD = "ended" => pcP = "L105")

C18_Witness ==
    /\ pcD = "ended"
    /\ d_fault = "online"
    /\ rendered = <<>>
    /\ pcP = "L93"
    /\ pubs = 1
    /\ gallons # 0

====
